---- MODULE Spec2Model ----
(***************************************************************************)
(* dir-merge (src/dir_merge/cli.py): a merge session stages a source tree  *)
(* in a temporary git repository, overlays a target tree with rsync,       *)
(* spawns a shell in it, and `finish` resets the repository to its index   *)
(* and mirrors it to the output directory.                                 *)
(*                                                                         *)
(* The model: the file system (user directories and temporary              *)
(* repositories), the session state file, the shell processes, one         *)
(* `merge` process per session (one step per statement that touches the    *)
(* file system, the state file or a process) and the short-lived           *)
(* `finish` / `status` process.                                            *)
(*                                                                         *)
(* Scope: directories are flat maps from file names to contents; the user  *)
(* directories hold no entry named .git and no ignore rules; git and rsync *)
(* behave as documented (rsync -a --delete --exclude=.git mirrors          *)
(* everything but .git; git checkout -- . and git clean -fd restore the    *)
(* index), and each of them may exit non-zero.  Commands typed by the user *)
(* are serialized, except that a `merge` blocked on its shell runs         *)
(* alongside the commands typed in that shell.                             *)
(***************************************************************************)
EXTENDS Integers, FiniteSets, Sequences, TLC

\* Bounds of the model.
MaxSessions == 2
MaxEvents == 2

Sessions == 1 .. MaxSessions

\* File names and contents of the modelled trees; NoFile: no such file.
Files == {"a", "b"}
Contents == {1, 2}
NoFile == 0
Trees == [Files -> {NoFile} \cup Contents]
EmptyTree == [f \in Files |-> NoFile]

\* Paths.  Tmp(i) is the directory tempfile.mkdtemp returns to session i.
SrcPath == <<"S", 0>>
TgtPath == <<"T", 0>>
OutPath == <<"O", 0>>
MissingPath == <<"N", 0>>
NoPath == <<"none", 0>>
Tmp(i) == <<"tmp", i>>
UserPaths == {SrcPath, TgtPath, OutPath}
TmpPaths == {Tmp(i) : i \in Sessions}
Paths == UserPaths \cup TmpPaths

\* The .git subtree of a directory: id = 0 when there is none, else the
\* session whose `git init` made it; index, the BASE commit's tree, HEAD's
\* tree and the number of commits.
NoMeta == [id |-> 0, index |-> EmptyTree, base |-> EmptyTree, head |-> EmptyTree, n |-> 0]
NoDir == [exists |-> FALSE, files |-> EmptyTree, meta |-> NoMeta]
EmptyDir == [exists |-> TRUE, files |-> EmptyTree, meta |-> NoMeta]

\* Contents of STATE_FILE; present = FALSE: the file does not exist.
\* shell_pid = 0: the record has no "shell_pid" key.
NoRecord ==
    [present |-> FALSE, temp_repo_path |-> NoPath, original_cwd |-> NoPath,
     output_dir |-> NoPath, source_dir |-> NoPath, target_dir |-> NoPath,
     shell_pid |-> 0]

IdleMerge ==
    [pc |-> "idle", source |-> NoPath, target |-> NoPath, output |-> NoPath,
     cwd |-> NoPath, err |-> "none"]
IdleCli ==
    [cmd |-> "none", pc |-> "idle", cwd |-> NoPath, st |-> NoRecord, err |-> "none"]

VARIABLES
    fs,      \* [Paths -> directory]: the file system
    store,   \* STATE_FILE
    merge,   \* [Sessions -> merge process]: pc, resolved arguments, error printed
    shell,   \* [Sessions -> "none" | "running" | "exited" | "killed" | "reused" |
             \* "victim"]: the process whose pid is the session's number: the
             \* spawned shell, or after it an unrelated process given the same pid
    cli,     \* the finish / status process: command, pc, cwd, loaded state, error
    ops,     \* [Sessions -> [e, s, v]]: what the user did to the session's repository:
             \* files edited, git add / git commit run, directory removed
    faults   \* how often a tool or a copy failed for a reason outside the model

vars == <<fs, store, merge, shell, cli, ops, faults>>

Exits == {"exit0", "exit1"}

IsDir(p) == p \in Paths /\ fs[p].exists

----------------------------------------------------------------------------
\* File-system and tool primitives.

\* shutil.copytree(src, dst, dirs_exist_ok=True): copy into dst, keep the rest.
CopyTree(src, dst) ==
    [exists |-> TRUE,
     files |-> [f \in Files |-> IF src.files[f] # NoFile THEN src.files[f] ELSE dst.files[f]],
     meta |-> IF src.meta.id # 0 THEN src.meta ELSE dst.meta]

\* rsync -av --delete src/ dst/ (no exclude): dst becomes src, .git included.
MirrorAll(src, dst) == [exists |-> TRUE, files |-> src.files, meta |-> src.meta]

\* rsync -av --exclude=.git src/ dst/ (no --delete): extra files of dst stay.
MirrorNoDelete(src, dst) ==
    [exists |-> TRUE,
     files |-> [f \in Files |-> IF src.files[f] # NoFile THEN src.files[f] ELSE dst.files[f]],
     meta |-> dst.meta]

\* A mirror followed by git add -A: the index of dst follows its files.
MirrorStaged(src, dst) ==
    [exists |-> TRUE, files |-> src.files, meta |-> [dst.meta EXCEPT !.index = src.files]]

\* rsync -av --delete --exclude=.git src/ dst/: the files of dst become those
\* of src; .git is neither sent nor deleted.
Mirror(src, dst) == [exists |-> TRUE, files |-> src.files, meta |-> dst.meta]

\* An rsync run that exits non-zero after updating the files in `done`.
PartialMirror(src, dst, done) ==
    [exists |-> TRUE,
     files |-> [f \in Files |-> IF f \in done THEN src.files[f] ELSE dst.files[f]],
     meta |-> dst.meta]

\* git init; git config user.email / user.name, run by session i.
GitInit(d, i) ==
    [d EXCEPT !.meta = [id |-> i, index |-> EmptyTree, base |-> EmptyTree,
                        head |-> EmptyTree, n |-> 0]]

\* git add .
GitAddAll(d) == [d EXCEPT !.meta.index = d.files]

\* git commit exits 1 with nothing to commit.
NothingToCommit(d) == d.meta.index = d.meta.head

\* git commit -m BASE / git commit -m ...
GitCommit(d) ==
    [d EXCEPT !.meta.head = d.meta.index,
              !.meta.base = IF d.meta.n = 0 THEN d.meta.index ELSE d.meta.base,
              !.meta.n = d.meta.n + 1]

\* git add <f>
GitAdd(d, f) == [d EXCEPT !.meta.index[f] = d.files[f]]

\* git checkout -- . leaves the working tree as it is (the reset is missing).
GitCheckoutNothing(d) == d

\* git checkout -- . : every path of the index is restored from the index.
GitCheckout(d) ==
    [d EXCEPT !.files = [f \in Files |->
        IF d.meta.index[f] # NoFile THEN d.meta.index[f] ELSE d.files[f]]]

\* git checkout -- . exits 1 when no path of the index matches ".".
PathspecMismatch(d) == d.meta.index = EmptyTree

\* git clean -f run without -d or on no path: untracked files stay.
GitCleanNothing(d) == d

\* git clean -fd: every file that is not in the index is removed.
GitClean(d) ==
    [d EXCEPT !.files = [f \in Files |->
        IF d.meta.index[f] # NoFile THEN d.files[f] ELSE NoFile]]

\* git status --short with the repository refreshed by a stray `git add -A`.
GitStatusStaging(d) == [d EXCEPT !.meta.index = d.files]

\* git status --short: reads the repository.
GitStatus(d) == d

----------------------------------------------------------------------------
\* The session state file.

\* A load that does not look whether the file exists.
StateFileAlways == TRUE

\* STATE_FILE.exists()
StateFileExists == store.present

\* save_session_state(state)
save_session_state(state) == store' = [state EXCEPT !.present = TRUE]

\* clear_session_state()
clear_session_state == store' = NoRecord

----------------------------------------------------------------------------
\* The source and target trees the sessions are run on: between them a file
\* is unchanged, modified, added or deleted by the target, and either tree
\* may be empty.  The output path does not exist before the first finish.
SourceTrees ==
    {EmptyTree, [f \in Files |-> IF f = "a" THEN 1 ELSE NoFile], [f \in Files |-> 1]}
TargetTrees ==
    {EmptyTree, [f \in Files |-> IF f = "a" THEN 1 ELSE NoFile],
     [f \in Files |-> IF f = "a" THEN 2 ELSE 1]}

Init ==
    /\ \E s \in SourceTrees, t \in TargetTrees :
         fs = [p \in Paths |->
                 IF p = SrcPath THEN [exists |-> TRUE, files |-> s, meta |-> NoMeta]
                 ELSE IF p = TgtPath THEN [exists |-> TRUE, files |-> t, meta |-> NoMeta]
                 ELSE NoDir]
    /\ store = NoRecord
    /\ merge = [i \in Sessions |-> IdleMerge]
    /\ shell = [i \in Sessions |-> "none"]
    /\ cli = IdleCli
    /\ ops = [i \in Sessions |-> [e |-> 0, s |-> 0, v |-> 0]]
    /\ faults = 0

\* What has disturbed the plain run of one session so far: the user's edits,
\* git commands and exits, removed directories, failing tools, and every
\* session started after the first.
RECURSIVE OpsUpTo(_)
OpsUpTo(i) ==
    IF i = 0 THEN 0
    ELSE OpsUpTo(i - 1) + ops[i].e + ops[i].s + ops[i].v
         + (IF shell[i] \in {"exited", "reused", "victim"} THEN 1 ELSE 0)
         + (IF shell[i] \in {"reused", "victim"} THEN 1 ELSE 0)
         + (IF i > 1 /\ merge[i].pc # "idle" THEN 1 ELSE 0)
Events == OpsUpTo(MaxSessions) + faults
MayHappen == Events < MaxEvents

\* A tool exits non-zero, or a copy raises, for a reason outside the model.
Fault == MayHappen /\ faults' = faults + 1

\* The user types one command at a time: no finish or status is running, no
\* merge is between its start and the spawn of its shell, and a merge whose
\* shell is gone has returned from wait().  A merge that has spawned its shell
\* and not yet saved the pid runs alongside the commands typed in that shell.
Prompt ==
    /\ cli.pc = "idle"
    /\ \A i \in Sessions :
         \/ merge[i].pc \in {"idle", "save2"} \cup Exits
         \/ merge[i].pc = "wait" /\ shell[i] = "running"

\* The prompt with every merge process blocked in wait() or gone.
Quiet == Prompt /\ \A i \in Sessions : merge[i].pc # "save2"

----------------------------------------------------------------------------
\* merge_command, one process per session.

\* The state dict of lines 126-132.
SessionState(i) ==
    [present |-> TRUE, temp_repo_path |-> Tmp(i), original_cwd |-> merge[i].cwd,
     output_dir |-> merge[i].output, source_dir |-> merge[i].source,
     target_dir |-> merge[i].target, shell_pid |-> 0]

\* The exit of a short-lived process, or of a merge before it has a session.
CliExit(cmd, cwd, st, code, e) ==
    cli' = [cmd |-> cmd, pc |-> code, cwd |-> cwd, st |-> st, err |-> e]
CliGoto(l) == cli' = [cli EXCEPT !.pc = l]
CliFail(e) == cli' = [cli EXCEPT !.pc = "exit1", !.err = e]

\* A failing step that is not noticed: the merge goes on to its first save.
MergeFailUnnoticed(i, e) == merge' = [merge EXCEPT ![i].pc = "save1", ![i].err = e]

\* Lines 153-158: the exception is printed and the process exits 1.
MergeFail(i, e) == merge' = [merge EXCEPT ![i].pc = "exit1", ![i].err = e]
MergeGoto(i, l) == merge' = [merge EXCEPT ![i].pc = l]

\* The next session: tempfile.mkdtemp never returns a name twice.
NextSession(i) ==
    /\ merge[i].pc = "idle"
    /\ \A j \in Sessions : j < i => merge[j].pc # "idle"

\* Lines 41 and 47 with no check of the target.
ValidArgsSourceOnly(source, target) == IsDir(source)

\* Lines 41 and 47: args.source.is_dir() and args.target.is_dir().
ValidArgs(source, target) == IsDir(source) /\ IsDir(target)

\* Lines 40-67: validation, path resolution, mkdtemp.  A merge that fails the
\* validation exits before it has a temporary directory.
MergeBegin(i, source, target, output, cwd) ==
    /\ Quiet
    /\ NextSession(i)
    /\ IF ~ValidArgs(source, target)
       THEN /\ CliExit("merge", cwd, NoRecord, "exit1", "Validation")
            /\ UNCHANGED <<fs, merge>>
       ELSE /\ i = 1 \/ MayHappen
            /\ merge' = [merge EXCEPT ![i] =
                   [pc |-> "copy", source |-> source, target |-> target,
                    output |-> IF output = NoPath THEN source ELSE output,
                    cwd |-> cwd, err |-> "none"]]
            /\ fs' = [fs EXCEPT ![Tmp(i)] = EmptyDir]
            /\ UNCHANGED cli
    /\ UNCHANGED <<store, shell, ops, faults>>

\* Line 71: shutil.copytree(source_dir, temp_dir, dirs_exist_ok=True).
MergeCopy(i) ==
    /\ merge[i].pc = "copy"
    /\ \/ /\ fs' = [fs EXCEPT ![Tmp(i)] = CopyTree(fs[merge[i].source], fs[Tmp(i)])]
          /\ MergeGoto(i, "init")
          /\ UNCHANGED faults
       \/ /\ Fault
          /\ MergeFail(i, "Error")
          /\ UNCHANGED fs
    /\ UNCHANGED <<store, shell, cli, ops>>

\* Lines 75-94: git init, git config.
MergeInit(i) ==
    /\ merge[i].pc = "init"
    /\ \/ /\ fs' = [fs EXCEPT ![Tmp(i)] = GitInit(fs[Tmp(i)], i)]
          /\ MergeGoto(i, "commit")
          /\ UNCHANGED faults
       \/ /\ Fault
          /\ MergeFail(i, "Tool")
          /\ UNCHANGED fs
    /\ UNCHANGED <<store, shell, cli, ops>>

\* Lines 97-108: git add . ; git commit -m BASE.
MergeCommit(i) ==
    /\ merge[i].pc = "commit"
    /\ LET added == GitAddAll(fs[Tmp(i)]) IN
       \/ /\ ~NothingToCommit(added)
          /\ fs' = [fs EXCEPT ![Tmp(i)] = GitCommit(added)]
          /\ MergeGoto(i, "overlay")
          /\ UNCHANGED faults
       \/ /\ IF NothingToCommit(added) THEN UNCHANGED faults ELSE Fault
          /\ fs' = [fs EXCEPT ![Tmp(i)] = added]
          /\ MergeFail(i, "Tool")
    /\ UNCHANGED <<store, shell, cli, ops>>

\* An overlay of the target onto the output directory itself.
MergeOverlayInPlace(i) ==
    /\ merge[i].pc = "overlay"
    /\ fs' = [fs EXCEPT ![merge[i].output] = Mirror(fs[merge[i].target], @)]
    /\ MergeGoto(i, "save1")
    /\ UNCHANGED <<store, shell, cli, ops, faults>>

\* Lines 112-123: rsync target onto the temporary repository.
MergeOverlay(i) ==
    /\ merge[i].pc = "overlay"
    /\ \/ /\ fs' = [fs EXCEPT ![Tmp(i)] = Mirror(fs[merge[i].target], fs[Tmp(i)])]
          /\ MergeGoto(i, "save1")
          /\ UNCHANGED faults
       \/ \E done \in SUBSET Files :
            /\ Fault
            /\ fs' = [fs EXCEPT ![Tmp(i)] =
                        PartialMirror(fs[merge[i].target], fs[Tmp(i)], done)]
            /\ MergeFail(i, "Tool")
    /\ UNCHANGED <<store, shell, cli, ops>>

\* Lines 126-133: the first save of the session state.
MergeSave1(i) ==
    /\ merge[i].pc = "save1"
    /\ save_session_state(SessionState(i))
    /\ MergeGoto(i, "spawn")
    /\ UNCHANGED <<fs, shell, cli, ops, faults>>

\* Lines 143-144: subprocess.Popen(shell, cwd=temp_dir).
MergeSpawn(i) ==
    /\ merge[i].pc = "spawn"
    /\ IF fs[Tmp(i)].exists
       THEN /\ shell' = [shell EXCEPT ![i] = "running"]
            /\ MergeGoto(i, "save2")
       ELSE /\ MergeFail(i, "Error")
            /\ UNCHANGED shell
    /\ UNCHANGED <<fs, store, cli, ops, faults>>

\* A second save that also rewrites the output directory.
WithPidAndOutput(state, pid) ==
    [state EXCEPT !.shell_pid = pid, !.output_dir = state.source_dir]

\* Line 147: state["shell_pid"] = str(shell_process.pid).
WithPid(state, pid) == [state EXCEPT !.shell_pid = pid]

\* Lines 147-148: the second save, with the shell's pid.
MergeSave2(i) ==
    /\ merge[i].pc = "save2"
    /\ save_session_state(WithPid(SessionState(i), i))
    /\ MergeGoto(i, "wait")
    /\ UNCHANGED <<fs, shell, cli, ops, faults>>

\* A merge that tidies up when its shell is gone.
MergeWaitCleanup(i) ==
    /\ merge[i].pc = "wait"
    /\ shell[i] \in {"exited", "killed"}
    /\ MergeGoto(i, "exit0")
    /\ fs' = [fs EXCEPT ![Tmp(i)] = NoDir]
    /\ clear_session_state
    /\ UNCHANGED <<shell, cli, ops, faults>>

\* Line 151: shell_process.wait() returns once the shell is gone.
MergeWait(i) ==
    /\ merge[i].pc = "wait"
    /\ shell[i] \in {"exited", "killed"}
    /\ MergeGoto(i, "exit0")
    /\ UNCHANGED <<fs, store, shell, cli, ops, faults>>

----------------------------------------------------------------------------
\* finish_command and status_command: the short-lived process.


\* Where a command can be typed: a user directory, or the temporary repository
\* of a session that got one (it may have been removed since).
Cwds == {SrcPath} \cup {Tmp(i) : i \in {j \in Sessions : merge[j].source # NoPath}}

\* Lines 164-179: load_session_state, Path.cwd(), the location check.
\* Path.cwd() raises FileNotFoundError, outside any try, in a removed directory.
FinishBegin(cwd) ==
    /\ Prompt
    /\ cwd \in Cwds
    /\ IF ~StateFileExists
       THEN CliExit("finish", cwd, NoRecord, "exit1", "NoSession")
       ELSE IF ~IsDir(cwd)
       THEN CliExit("finish", cwd, store, "exit1", "Crash")
       ELSE IF cwd # store.temp_repo_path
       THEN CliExit("finish", cwd, store, "exit1", "WrongLocation")
       ELSE CliExit("finish", cwd, store, "exists", "none")
    /\ UNCHANGED <<fs, store, merge, shell, ops, faults>>

\* Lines 182-185: the temporary repository must still exist.
FinishExists ==
    /\ cli.pc = "exists"
    /\ IF ~IsDir(cli.st.temp_repo_path)
       THEN /\ clear_session_state
            /\ CliFail("StagingMissing")
       ELSE /\ CliGoto("mkdir")
            /\ UNCHANGED store
    /\ UNCHANGED <<fs, merge, shell, ops, faults>>

\* An output directory filled before the repository is reset.
FinishMkdirMirror ==
    /\ cli.pc = "mkdir"
    /\ fs' = [fs EXCEPT ![cli.st.output_dir] = Mirror(fs[cli.st.temp_repo_path], @)]
    /\ CliGoto("checkout")
    /\ UNCHANGED <<store, merge, shell, ops, faults>>

\* Line 192: output_dir.mkdir(parents=True, exist_ok=True).
FinishMkdir ==
    /\ cli.pc = "mkdir"
    /\ fs' = [fs EXCEPT ![cli.st.output_dir] = IF @.exists THEN @ ELSE EmptyDir]
    /\ CliGoto("checkout")
    /\ UNCHANGED <<store, merge, shell, ops, faults>>

\* Lines 196-201: git checkout -- . with cwd=temp_repo.  subprocess.run raises
\* when the directory is gone (line 248: "Error"); git exits non-zero outside
\* a repository and when the index is empty (line 245: "Tool").
FinishCheckout ==
    /\ cli.pc = "checkout"
    /\ LET t == cli.st.temp_repo_path IN
       IF ~fs[t].exists
       THEN CliFail("Error") /\ UNCHANGED <<fs, faults>>
       ELSE IF fs[t].meta.id = 0 \/ PathspecMismatch(fs[t])
       THEN CliFail("Tool") /\ UNCHANGED <<fs, faults>>
       ELSE \/ /\ fs' = [fs EXCEPT ![t] = GitCheckout(fs[t])]
               /\ CliGoto("clean")
               /\ UNCHANGED faults
            \/ /\ Fault
               /\ CliFail("Tool")
               /\ UNCHANGED fs
    /\ UNCHANGED <<store, merge, shell, ops>>

\* Lines 203-208: git clean -fd with cwd=temp_repo.
FinishClean ==
    /\ cli.pc = "clean"
    /\ LET t == cli.st.temp_repo_path IN
       IF ~fs[t].exists
       THEN CliFail("Error") /\ UNCHANGED <<fs, faults>>
       ELSE IF fs[t].meta.id = 0
       THEN CliFail("Tool") /\ UNCHANGED <<fs, faults>>
       ELSE \/ /\ fs' = [fs EXCEPT ![t] = GitClean(fs[t])]
               /\ CliGoto("mirror")
               /\ UNCHANGED faults
            \/ /\ Fault
               /\ CliFail("Tool")
               /\ UNCHANGED fs
    /\ UNCHANGED <<store, merge, shell, ops>>

\* Lines 212-223: rsync the temporary repository onto the output directory.
\* rsync exits non-zero, deleting nothing, when its source directory is gone.
FinishMirror ==
    /\ cli.pc = "mirror"
    /\ LET t == cli.st.temp_repo_path
           o == cli.st.output_dir IN
       IF ~fs[t].exists
       THEN CliFail("Tool") /\ UNCHANGED <<fs, faults>>
       ELSE \/ /\ fs' = [fs EXCEPT ![o] = Mirror(fs[t], fs[o])]
               /\ CliGoto("rmtree")
               /\ UNCHANGED faults
            \/ \E done \in SUBSET Files :
                 /\ Fault
                 /\ fs' = [fs EXCEPT ![o] = PartialMirror(fs[t], fs[o], done)]
                 /\ CliFail("Tool")
    /\ UNCHANGED <<store, merge, shell, ops>>

\* Line 227 left out: the temporary repository is kept.
FinishRmtreeKeep ==
    /\ cli.pc = "rmtree"
    /\ CliGoto("clear")
    /\ UNCHANGED <<fs, store, merge, shell, ops, faults>>

\* Line 227: shutil.rmtree(temp_repo).
FinishRmtree ==
    /\ cli.pc = "rmtree"
    /\ LET t == cli.st.temp_repo_path IN
       IF fs[t].exists
       THEN /\ fs' = [fs EXCEPT ![t] = NoDir]
            /\ CliGoto("clear")
       ELSE /\ CliFail("Error")
            /\ UNCHANGED fs
    /\ UNCHANGED <<store, merge, shell, ops, faults>>

\* Lines 230-233: read the shell's pid from the loaded state, clear the file.
FinishClear ==
    /\ cli.pc = "clear"
    /\ clear_session_state
    /\ CliGoto("kill")
    /\ UNCHANGED <<fs, merge, shell, ops, faults>>

\* SIGKILL delivered to the process that holds the pid.
Killed(p) == IF p = "running" THEN "killed" ELSE "victim"

\* Lines 242-243: os.kill(shell_pid, 9) when the state held a pid; with no
\* such process it raises ProcessLookupError, which line 248 turns into exit 1.
FinishKill ==
    /\ cli.pc = "kill"
    /\ LET pid == cli.st.shell_pid IN
       IF pid = 0
       THEN /\ CliGoto("exit0")
            /\ UNCHANGED shell
       ELSE IF shell[pid] \in {"running", "reused"}
       THEN /\ shell' = [shell EXCEPT ![pid] = Killed(@)]
            /\ CliGoto("exit0")
       ELSE /\ CliFail("Error")
            /\ UNCHANGED shell
    /\ UNCHANGED <<fs, store, merge, ops, faults>>

\* Lines 255-285: status_command.
status_command ==
    /\ Prompt
    /\ IF ~StateFileExists
       THEN /\ CliExit("status", NoPath, NoRecord, "exit1", "NoSession")
            /\ UNCHANGED fs
       ELSE /\ CliExit("status", NoPath, store, "exit0", "none")
            /\ IF IsDir(store.temp_repo_path)
               THEN fs' = [fs EXCEPT ![store.temp_repo_path] = GitStatus(@)]
               ELSE UNCHANGED fs
    /\ UNCHANGED <<store, merge, shell, ops, faults>>

\* sys.exit / return from main: the process is gone and the prompt is back.
CliReturn ==
    /\ cli.pc \in Exits
    /\ cli' = IdleCli
    /\ UNCHANGED <<fs, store, merge, shell, ops, faults>>

----------------------------------------------------------------------------
\* The user in the interactive window, and the environment.

\* The temporary repository the user works in: the one the state file names.
Editable(i) ==
    /\ Quiet
    /\ store.present /\ store.temp_repo_path = Tmp(i)
    /\ fs[Tmp(i)].exists /\ fs[Tmp(i)].meta.id # 0
    /\ MayHappen

\* The user writes or removes a file of the working tree.
UserEdit(i, f, c) ==
    /\ Editable(i)
    /\ fs[Tmp(i)].files[f] # c
    /\ fs' = [fs EXCEPT ![Tmp(i)].files[f] = c]
    /\ ops' = [ops EXCEPT ![i].e = @ + 1]
    /\ UNCHANGED <<store, merge, shell, cli, faults>>

\* git add <f>, typed in the shell.
UserStage(i, f) ==
    /\ Editable(i)
    /\ fs[Tmp(i)].meta.index[f] # fs[Tmp(i)].files[f]
    /\ fs' = [fs EXCEPT ![Tmp(i)] = GitAdd(@, f)]
    /\ ops' = [ops EXCEPT ![i].s = @ + 1]
    /\ UNCHANGED <<store, merge, shell, cli, faults>>

\* git commit, typed in the shell.
UserCommit(i) ==
    /\ Editable(i)
    /\ ~NothingToCommit(fs[Tmp(i)])
    /\ fs' = [fs EXCEPT ![Tmp(i)] = GitCommit(@)]
    /\ ops' = [ops EXCEPT ![i].s = @ + 1]
    /\ UNCHANGED <<store, merge, shell, cli, faults>>

\* The user leaves the shell (exit, or the terminal is closed).
ShellExit(i) ==
    /\ Quiet
    /\ MayHappen
    /\ shell[i] = "running"
    /\ shell' = [shell EXCEPT ![i] = "exited"]
    /\ UNCHANGED <<fs, store, merge, cli, ops, faults>>

\* The kernel gives the pid of a shell that exited and was waited for to an
\* unrelated process.
PidReuse(i) ==
    /\ Quiet
    /\ MayHappen
    /\ shell[i] = "exited"
    /\ merge[i].pc = "exit0"
    /\ shell' = [shell EXCEPT ![i] = "reused"]
    /\ UNCHANGED <<fs, store, merge, cli, ops, faults>>

\* The temporary repository is removed out of band.
StagingVanish(i) ==
    /\ Quiet \/ cli.pc = "exists"
    /\ MayHappen
    /\ store.present /\ store.temp_repo_path = Tmp(i)
    /\ fs[Tmp(i)].exists
    /\ fs' = [fs EXCEPT ![Tmp(i)] = NoDir]
    /\ ops' = [ops EXCEPT ![i].v = @ + 1]
    /\ UNCHANGED <<store, merge, shell, cli, faults>>

----------------------------------------------------------------------------
SourceArgs == {SrcPath, MissingPath}
TargetArgs == {TgtPath, MissingPath}
OutputArgs == {NoPath, OutPath}
MergeCwds == {SrcPath}

Next ==
    \/ \E i \in Sessions, s \in SourceArgs, t \in TargetArgs, o \in OutputArgs,
          c \in MergeCwds : MergeBegin(i, s, t, o, c)
    \/ \E i \in Sessions : MergeCopy(i)
    \/ \E i \in Sessions : MergeInit(i)
    \/ \E i \in Sessions : MergeCommit(i)
    \/ \E i \in Sessions : MergeOverlay(i)
    \/ \E i \in Sessions : MergeSave1(i)
    \/ \E i \in Sessions : MergeSpawn(i)
    \/ \E i \in Sessions : MergeSave2(i)
    \/ \E i \in Sessions : MergeWait(i)
    \/ \E c \in Paths : FinishBegin(c)
    \/ FinishExists
    \/ FinishMkdir
    \/ FinishCheckout
    \/ FinishClean
    \/ FinishMirror
    \/ FinishRmtree
    \/ FinishClear
    \/ FinishKill
    \/ status_command
    \/ CliReturn
    \/ \E i \in Sessions, f \in Files, c \in {NoFile} \cup Contents : UserEdit(i, f, c)
    \/ \E i \in Sessions, f \in Files : UserStage(i, f)
    \/ \E i \in Sessions : UserCommit(i)
    \/ \E i \in Sessions : ShellExit(i)
    \/ \E i \in Sessions : PidReuse(i)
    \/ \E i \in Sessions : StagingVanish(i)

Spec == Init /\ [][Next]_vars

----------------------------------------------------------------------------
\* Properties.

\* The session of a temporary repository's path.
TmpId(p) == p[2]

\* finish has mirrored the temporary repository onto the output directory
\* (line 223 returned) and has not yet removed it.
Mirrored == cli.cmd = "finish" /\ cli.pc = "rmtree"
FinRepo == fs[cli.st.temp_repo_path]
FinOut == fs[cli.st.output_dir]
FinTarget == fs[cli.st.target_dir]

\* The user has neither edited nor staged or committed anything in session k.
Untouched(k) == ops[k].e = 0 /\ ops[k].s = 0

\* A finish or status process starts in this step.
Invoked(cmd) == cli.pc = "idle" /\ cli'.cmd = cmd

\* C1 (as claimed): a merge invoked while the state file holds a record fails
\* with SessionAlreadyActive and leaves the state file and the directories as
\* they are.
C1_SecondMergeRefused ==
    [][\A i \in Sessions :
         (store.present /\ merge[i].pc = "idle" /\ merge'[i].pc # "idle")
            => /\ merge'[i].pc = "exit1"
               /\ merge'[i].err = "SessionAlreadyActive"
               /\ UNCHANGED <<store, fs>>]_vars

\* C2 (as claimed): start, then finish with nothing edited or staged, leaves
\* the output directory with the target's files and without .git.
C2_RoundTripGivesTarget ==
    (Mirrored /\ Untouched(TmpId(cli.st.temp_repo_path)))
        => FinOut.files = FinTarget.files /\ FinOut.meta.id = 0

\* C2 (amended): the BASE commit holds the source's files, and start, then
\* finish with nothing edited or staged, leaves the output directory with the
\* files of the BASE commit and without .git.
C2_RoundTripGivesBase ==
    /\ \A i \in Sessions :
         merge[i].pc \in {"overlay", "save1", "spawn"}
            => fs[Tmp(i)].meta.base = fs[merge[i].source].files
    /\ (Mirrored /\ Untouched(TmpId(cli.st.temp_repo_path)))
          => FinOut.files = FinRepo.meta.base /\ FinOut.meta.id = 0

\* C2 witness: such a finish where the target differs from the source.
C2_Witness ==
    /\ Mirrored /\ Untouched(TmpId(cli.st.temp_repo_path))
    /\ FinTarget.files # FinRepo.meta.base
    /\ FinOut.files = FinRepo.meta.base

\* A file the source has and the target lacks, seen from a running finish.
DeletedByTarget(f) == FinRepo.meta.base[f] # NoFile /\ FinTarget.files[f] = NoFile

\* C3 (as claimed): after start and a finish with nothing edited, the output
\* directory lacks every file the source has and the target lacks.
C3_DeletionReachesOutput ==
    (Mirrored /\ Untouched(TmpId(cli.st.temp_repo_path)))
        => \A f \in Files : DeletedByTarget(f) => FinOut.files[f] = NoFile

\* C3 (amended): after start and a finish with nothing edited or staged, the
\* output directory holds such a file with the source's content; it lacks the
\* file when the deletion was staged (the file is not in the index).
C3_DeletionNeedsStaging ==
    Mirrored =>
        \A f \in Files : DeletedByTarget(f) =>
            /\ Untouched(TmpId(cli.st.temp_repo_path))
                  => FinOut.files[f] = FinRepo.meta.base[f]
            /\ FinRepo.meta.index[f] = NoFile => FinOut.files[f] = NoFile

\* C3 witness: a finish with nothing staged that has put a deleted file back.
C3_Witness ==
    /\ Mirrored /\ Untouched(TmpId(cli.st.temp_repo_path))
    /\ \E f \in Files : DeletedByTarget(f) /\ FinOut.files[f] # NoFile

\* C4: after the overlay and before the shell exists, the working tree of the
\* temporary repository is the target's tree and its .git is as the BASE
\* commit left it: one commit, index and HEAD equal to the source's files.
C4_OverlayPostcondition ==
    \A i \in Sessions :
        merge[i].pc \in {"save1", "spawn"} =>
            /\ fs[Tmp(i)].files = fs[merge[i].target].files
            /\ fs[Tmp(i)].meta =
                 [id |-> i, index |-> fs[merge[i].source].files,
                  base |-> fs[merge[i].source].files,
                  head |-> fs[merge[i].source].files, n |-> 1]

\* C4 witness: an overlay that deleted a file of the source.
C4_Witness ==
    \E i \in Sessions, f \in Files :
        /\ merge[i].pc = "save1"
        /\ fs[merge[i].source].files[f] # NoFile
        /\ fs[Tmp(i)].files[f] = NoFile

\* C5: once finish has mirrored, the output directory holds the files of the
\* index, whatever the working tree held.
C5_OutputIsIndex == Mirrored => FinOut.files = FinRepo.meta.index

\* C5 witness: the target equals the source, the user edited one file and
\* staged nothing, and finish has mirrored: the edit is not in the output.
C5_Witness ==
    /\ Mirrored
    /\ ops[TmpId(cli.st.temp_repo_path)] = [e |-> 1, s |-> 0, v |-> 0]
    /\ FinTarget.files = FinRepo.meta.base
    /\ FinOut.files = FinRepo.meta.base

\* C6 (as claimed): finish run with a record present, from a directory other
\* than the recorded temporary repository, exits 1 with the wrong-location
\* error and changes nothing.
C6_WrongLocation ==
    [][(Invoked("finish") /\ store.present /\ cli'.cwd # store.temp_repo_path)
          => /\ cli'.pc = "exit1" /\ cli'.err = "WrongLocation"
             /\ UNCHANGED <<fs, store, shell, merge>>]_vars

\* C7: status leaves the state file, every directory (working tree, index,
\* commits, output) and every process as they were.
C7_StatusReadOnly ==
    [][Invoked("status") => UNCHANGED <<fs, store, shell, merge>>]_vars

\* C7 witness: status has run on a session whose working tree differs from
\* its index.
C7_Witness ==
    /\ cli.cmd = "status" /\ cli.pc = "exit0"
    /\ IsDir(cli.st.temp_repo_path)
    /\ fs[cli.st.temp_repo_path].files # fs[cli.st.temp_repo_path].meta.index

\* C8 (as claimed): a finish that has mirrored, removed the temporary
\* repository and cleared the state file exits 0, even if the kill fails.
C8_KillBestEffort ==
    [][(cli.cmd = "finish" /\ cli.pc = "kill" /\ cli'.pc \in Exits)
          => cli'.pc = "exit0"]_vars

\* C9 (as claimed): finish run while the record names a directory that no
\* longer exists reports the missing repository and clears the state file.
C9_StagingMissing ==
    [][(Invoked("finish") /\ store.present /\ ~IsDir(store.temp_repo_path))
          => \/ cli'.pc \notin Exits
             \/ cli'.err = "StagingMissing" /\ ~store'.present]_vars

\* C10: with no state file, finish and status exit 1 with the no-session
\* error and change nothing.
C10_NoSessionGuard ==
    [][((Invoked("finish") \/ Invoked("status")) /\ ~store.present)
          => /\ cli'.pc = "exit1" /\ cli'.err = "NoSession"
             /\ UNCHANGED <<fs, store, shell, merge>>]_vars

\* C10 witness: finish has been refused for want of a state file.
C10_Witness == cli.cmd = "finish" /\ cli.pc = "exit1" /\ cli.err = "NoSession"

\* A merge process takes a step: session i starts or moves on.
MergeStep(i) == merge'[i] # merge[i]

\* A merge invocation ends in the validation (lines 41-51).
Rejected == cli.pc = "idle" /\ cli'.cmd = "merge"

\* C11: a merge that gets a temporary directory has an existing source and
\* an existing target; a merge whose source or target is not a directory exits
\* 1 with the validation error and leaves the file system, the state file,
\* the shells and every session as they were.
C11_StartValidation ==
    [][/\ \A i \in Sessions :
            (merge[i].pc = "idle" /\ MergeStep(i))
               => IsDir(merge'[i].source) /\ IsDir(merge'[i].target)
       /\ Rejected
            => /\ cli'.pc = "exit1" /\ cli'.err = "Validation"
               /\ UNCHANGED <<fs, store, shell, merge>>]_vars

\* C11 witness: a merge was rejected while a session was recorded and its
\* shell running.
C11_Witness ==
    /\ cli.cmd = "merge" /\ cli.err = "Validation"
    /\ store.present /\ shell[1] = "running"
    /\ ~IsDir(Tmp(2))

\* The steps of finish_command's try block, in the order of the code.
FinishOrder ==
    {<<"mkdir", "checkout">>, <<"checkout", "clean">>, <<"clean", "mirror">>,
     <<"mirror", "rmtree">>, <<"rmtree", "clear">>, <<"clear", "kill">>,
     <<"kill", "exit0">>}

\* C12: past the existence check, finish moves through mkdir, checkout, clean,
\* mirror, rmtree, clear, kill in this order or exits 1; the output directory
\* exists once mkdir is done; the temporary repository is removed only by the
\* rmtree step, when the output holds its files; the state file is cleared
\* only by the clear step, when the repository is gone; a process is killed
\* only by the kill step, and it is the one with the pid of the loaded record.
C12_FinishOrder ==
    [][(cli.cmd = "finish" /\ cli.pc \notin {"exists"} \cup Exits /\ cli' # cli)
          => /\ <<cli.pc, cli'.pc>> \in FinishOrder \/ cli'.pc = "exit1"
             /\ cli.pc \in {"checkout", "clean", "mirror", "rmtree"} => IsDir(cli.st.output_dir)
             /\ (FinRepo.exists /\ ~fs'[cli.st.temp_repo_path].exists)
                    => cli.pc = "rmtree" /\ FinOut.files = FinRepo.files
             /\ (store.present /\ ~store'.present)
                    => cli.pc = "clear" /\ ~FinRepo.exists
             /\ shell' # shell
                    => /\ cli.pc = "kill" /\ cli.st.shell_pid > 0
                       /\ \A j \in Sessions : j # cli.st.shell_pid => shell'[j] = shell[j]]_vars

\* C12 witness: finish has killed the shell after writing an output directory
\* it had to create.
C12_Witness ==
    /\ cli.cmd = "finish" /\ cli.pc = "exit0"
    /\ cli.st.output_dir = OutPath /\ IsDir(OutPath)
    /\ cli.st.shell_pid > 0 /\ shell[cli.st.shell_pid] = "killed"
    /\ ~store.present /\ ~IsDir(cli.st.temp_repo_path)

\* C13: a merge that fails in the copy, git init, the BASE commit or the
\* overlay exits 1 without touching the state file, and a merge that has
\* exited 1 never writes it; the state file comes to name a session's
\* temporary repository only by that session's saves, and the first save
\* finds the repository with the BASE commit of the source's files and the
\* target's files in the working tree.
C13_NoHalfInitialized ==
    [][\A i \in Sessions :
         /\ (merge[i].pc \in {"copy", "init", "commit", "overlay"} /\ MergeStep(i))
               => /\ store' = store
                  /\ store.temp_repo_path # Tmp(i)
                  /\ merge'[i].pc \in {"init", "commit", "overlay", "save1", "exit1"}
         /\ merge[i].pc = "exit1" => ~MergeStep(i)
         /\ (store' # store /\ store'.temp_repo_path = Tmp(i))
               => merge[i].pc \in {"save1", "save2"} /\ MergeStep(i)
         /\ merge[i].pc = "save1"
               => /\ fs[Tmp(i)].meta.n = 1
                  /\ fs[Tmp(i)].meta.base = fs[merge[i].source].files
                  /\ fs[Tmp(i)].files = fs[merge[i].target].files]_vars

\* C13 witness: the overlay failed half way; the repository is left behind
\* and the state file does not name it.
C13_Witness ==
    \E i \in Sessions :
        /\ merge[i].pc = "exit1" /\ merge[i].err = "Tool"
        /\ fs[Tmp(i)].meta.n = 1
        /\ fs[Tmp(i)].files # fs[Tmp(i)].meta.base
        /\ fs[Tmp(i)].files # fs[merge[i].target].files
        /\ store.temp_repo_path # Tmp(i)

\* The record of session i as lines 126-132 and 147 build it from the
\* arguments of the merge, with pid = 0 for the record without a pid.
Persisted(i, pid) ==
    [present |-> TRUE, temp_repo_path |-> Tmp(i), original_cwd |-> merge[i].cwd,
     output_dir |-> merge[i].output, source_dir |-> merge[i].source,
     target_dir |-> merge[i].target, shell_pid |-> pid]

\* C14: a merge writes the state file at its first save, before its shell
\* exists, with the five paths and no pid, and at its second save, after the
\* spawn, with the same five paths and the shell's pid, and at no other step;
\* as long as the state file names the same temporary repository, its source,
\* target, output and original directory do not change.
C14_TwoPhasePersist ==
    [][\A i \in Sessions :
         /\ (MergeStep(i) /\ store' # store) => merge[i].pc \in {"save1", "save2"}
         /\ (MergeStep(i) /\ merge[i].pc = "save1")
               => store' = Persisted(i, 0) /\ shell[i] = "none"
         /\ (MergeStep(i) /\ merge[i].pc = "save2")
               => store' = Persisted(i, i) /\ shell[i] # "none"
         /\ (store.present /\ store'.present
             /\ store.temp_repo_path = Tmp(i) /\ store'.temp_repo_path = Tmp(i))
               => /\ store'.source_dir = store.source_dir
                  /\ store'.target_dir = store.target_dir
                  /\ store'.output_dir = store.output_dir
                  /\ store'.original_cwd = store.original_cwd]_vars

\* C14 witness: the second save is done for a session with an output
\* directory of its own.
C14_Witness ==
    \E i \in Sessions :
        /\ merge[i].pc = "wait"
        /\ store = Persisted(i, i)
        /\ store.output_dir = OutPath /\ store.source_dir = SrcPath

\* C15: no step of a merge removes the state file or a directory, and the
\* return from wait(), taken when the shell is gone, changes neither the
\* state file nor the file system.
C15_RecordOutlivesStart ==
    [][\A i \in Sessions : MergeStep(i) =>
         /\ store.present => store'.present
         /\ \A p \in Paths : fs[p].exists => fs'[p].exists
         /\ merge[i].pc = "wait"
               => /\ shell[i] # "running" /\ merge'[i].pc = "exit0"
                  /\ UNCHANGED <<fs, store>>]_vars

\* C15 witness: the user left the shell without finish, the merge has
\* returned, and the record and the repository are still there.
C15_Witness ==
    /\ merge[1].pc = "exit0" /\ shell[1] = "exited"
    /\ store = Persisted(1, 1)
    /\ IsDir(Tmp(1)) /\ fs[Tmp(1)].meta.n = 1

\* The merge of session i has spawned its shell.
Started(i) == merge[i].pc \in {"save2", "wait", "exit0"}

\* C16: when the overlay is done the BASE commit holds the source's files and
\* the working tree the target's; the BASE commit never changes afterwards;
\* and once the shell is spawned, as long as the user has staged and
\* committed nothing, the repository has one commit and its index and HEAD
\* equal BASE.
C16_BaselineAndIndex ==
    [][\A i \in Sessions :
         /\ merge[i].pc \in {"save1", "spawn"}
               => /\ fs[Tmp(i)].meta.base = fs[merge[i].source].files
                  /\ fs[Tmp(i)].files = fs[merge[i].target].files
         /\ ((merge[i].pc \in {"save1", "spawn"} \/ Started(i))
             /\ fs[Tmp(i)].exists /\ fs'[Tmp(i)].exists)
               => fs'[Tmp(i)].meta.base = fs[Tmp(i)].meta.base
         /\ (Started(i) /\ fs[Tmp(i)].exists /\ ops[i].s = 0)
               => /\ fs[Tmp(i)].meta.n = 1
                  /\ fs[Tmp(i)].meta.head = fs[Tmp(i)].meta.base
                  /\ fs[Tmp(i)].meta.index = fs[Tmp(i)].meta.base]_vars

\* C16 witness: a started session whose working tree holds the target's
\* files, different from the index, which equals BASE.
C16_Witness ==
    \E i \in Sessions :
        /\ merge[i].pc = "wait" /\ Untouched(i)
        /\ fs[Tmp(i)].files = fs[merge[i].target].files
        /\ fs[Tmp(i)].files # fs[Tmp(i)].meta.index
        /\ fs[Tmp(i)].meta.index = fs[Tmp(i)].meta.base
        /\ fs[Tmp(i)].meta.n = 1

\* C17: a finish that exits 1 in git checkout, git clean or rsync leaves the
\* state file present and unchanged, the temporary repository in place and
\* every process alive; and a step of finish changes the files of the output
\* directory only in the mirror step, when the working tree of the
\* repository equals its index.
C17_FinishFailureKeepsSession ==
    [][(cli.cmd = "finish" /\ cli' # cli) =>
         /\ (cli.pc \in {"checkout", "clean", "mirror"} /\ cli'.pc = "exit1")
               => /\ store.present /\ store' = store
                  /\ FinRepo.exists /\ fs'[cli.st.temp_repo_path].exists
                  /\ shell' = shell
         /\ (cli.pc \notin Exits /\ fs'[cli.st.output_dir].files # FinOut.files)
               => cli.pc = "mirror" /\ FinRepo.files = FinRepo.meta.index]_vars

\* C17 witness: rsync failed half way: finish has exited 1, the output holds
\* part of the repository's files, the record, the repository and the shell
\* are still there.
C17_Witness ==
    /\ cli.cmd = "finish" /\ cli.pc = "exit1" /\ cli.err = "Tool"
    /\ store.present /\ store.temp_repo_path = cli.st.temp_repo_path
    /\ FinRepo.exists /\ FinRepo.files = FinRepo.meta.index
    /\ FinOut.exists /\ FinOut.files # FinRepo.files /\ FinOut.files # EmptyTree
    /\ cli.st.shell_pid > 0 /\ shell[cli.st.shell_pid] = "running"

\* C18 (as claimed): once finish has cleared the state file, on its way to
\* exit 0, there is no state file; no save of the merge that spawned the
\* shell brings back a record of the removed repository.
C18_RecordStaysGone ==
    (cli.cmd = "finish" /\ cli.pc \in {"kill", "exit0"}) => ~store.present

\* C19 (as claimed): when finish calls os.kill, the pid is that of the shell
\* spawned for the temporary repository finish runs in, and that shell is
\* still running.
C19_KillTargetsLiveShell ==
    [][(cli.cmd = "finish" /\ cli.pc = "kill" /\ cli.st.shell_pid > 0 /\ cli' # cli)
          => /\ cli.st.temp_repo_path = Tmp(cli.st.shell_pid)
             /\ cli.cwd = cli.st.temp_repo_path
             /\ shell[cli.st.shell_pid] = "running"]_vars

\* C20: a merge, rejected or not, changes no directory but the temporary
\* repository of its own session and no state but that and the state file,
\* its own shell and itself; the output directory named with --output comes
\* into being and gets its files only in the mkdir and mirror steps of
\* finish.
C20_StartLeavesUserTrees ==
    [][/\ \A i \in Sessions : MergeStep(i) =>
            /\ \A p \in Paths \ {Tmp(i)} : fs'[p] = fs[p]
            /\ \A j \in Sessions \ {i} : shell'[j] = shell[j] /\ merge'[j] = merge[j]
            /\ UNCHANGED <<cli, ops>>
       /\ Rejected => UNCHANGED <<fs, store, shell, merge>>
       /\ fs'[OutPath] # fs[OutPath]
            => cli.cmd = "finish" /\ cli.pc \in {"mkdir", "mirror"}]_vars

\* C20 witness: a merge whose output is its source has overlaid a target
\* that differs from the source and spawned its shell; a second merge has
\* failed; the source, the target and the output path are as they were.
C20_Witness ==
    /\ merge[1].pc = "wait" /\ merge[1].output = merge[1].source
    /\ fs[Tmp(1)].files # fs[SrcPath].files
    /\ fs[Tmp(1)].meta.base = fs[SrcPath].files
    /\ fs[TgtPath].files = fs[Tmp(1)].files
    /\ merge[2].pc = "exit1"
    /\ ~IsDir(OutPath)

====
